---- MODULE Spec2Model ----
(***************************************************************************)
(* A model of the OpenSRS REST facade: the vendor client (makeRequest and  *)
(* its one-line API methods), the single-record DNS handlers of           *)
(* routes/dns-routes.js and routes/health-routes.js (all the variants the  *)
(* files carry), the lookup route and the CacheManager; further down, the  *)
(* registration and removal of Domain documents, POST /create-zone, the    *)
(* bulk endpoints and the request signature, each with a specification of  *)
(* its own over the same variables.                                        *)
(*                                                                         *)
(* One step of a handler is one awaited client call together with the     *)
(* synchronous code that follows it up to the next await or the response.  *)
(* The vendor is the environment: each POST ends in a network error or in  *)
(* an XML body with a response code, chosen freely.                        *)
(***************************************************************************)
EXTENDS Integers, Sequences, FiniteSets, TLC

VARIABLES
    zone,       \* the record list the vendor holds for the domain
    parser,     \* which response parser the injected client carries
    reqs,       \* per request slot: the handler's position and locals
    started,    \* number of requests received so far
    now,        \* Date.now(), in milliseconds
    ticks,      \* number of clock advances so far
    lookupCache,\* CacheManager.lookupCache : domain -> {data, timestamp}
    priceCache, \* CacheManager.priceCache
    call,       \* the last direct client API call: method, posts, result
    domains,    \* the Domain collection of the database
    apiKey      \* the client's apiKey, a string as the list of its character codes

vars == <<zone, parser, reqs, started, now, ticks, lookupCache, priceCache, call,
          domains, apiKey>>

(***************************************************************************)
(* Bounds of the model.                                                    *)
(***************************************************************************)
MaxZone == 2
MaxRequests == 1
MaxTicks == 3

Undef == "undefined"
Domain == "example.com"

\* config.apiKey of the one client the server builds
TheKey == << 107, 49 >>

(***************************************************************************)
(* DNS records.  ttl and priority are 0 when the field is absent (0 is     *)
(* falsy in the handlers' tests, like undefined).                          *)
(***************************************************************************)
Rec(t, s, a, l, p) ==
    [type |-> t, subdomain |-> s, address |-> a, ttl |-> l, priority |-> p]

\* `!record` : the body carries no such object
NoRecord == Rec("<none>", Undef, Undef, 0, 0)

ZoneRecords ==
    { Rec("A", "www", "a1", 3600, 0),
      Rec("A", "www", "a2", 300, 0),
      Rec("MX", "", "m1", 3600, 10) }

BodyRecords ==
    { Rec("A", "www", "a3", 0, 0),       \* a new A record
      Rec("A", "www", Undef, 0, 0),      \* a key without address
      Rec("A", "www", "a1", 0, 0),       \* a key with address
      Rec("MX", Undef, "m2", 0, 10),     \* apex MX
      Rec(Undef, "www", "a1", 0, 0),     \* type missing
      Rec("A", "mail", "a1", 0, 0) }     \* matches nothing

\* the lists of at most n different elements of S
SeqsUpTo(S, n) ==
    { q \in UNION { [1..k -> S] : k \in 0..n } :
        \A i, j \in 1..Len(q) : q[i] = q[j] => i = j }

Zones == SeqsUpTo(ZoneRecords, MaxZone)

(***************************************************************************)
(* CacheManager (lib/cache-manager.js).  A map is a function from the      *)
(* cached domains to [data, timestamp].                                    *)
(***************************************************************************)
cacheTimeout == 5 * 60 * 1000

null == "null"

cacheLookup(cache, domain, result) ==
    [d \in (DOMAIN cache) \cup {domain} |->
        IF d = domain THEN [data |-> result, timestamp |-> now] ELSE cache[d]]

getCachedLookup(domain) ==
    IF domain \in DOMAIN lookupCache
       /\ (now - lookupCache[domain].timestamp) < cacheTimeout
    THEN lookupCache[domain].data
    ELSE null

cachePrice(cache, domain, result) ==
    [d \in (DOMAIN cache) \cup {domain} |->
        IF d = domain THEN [data |-> result, timestamp |-> now] ELSE cache[d]]

getCachedPrice(domain) ==
    IF domain \in DOMAIN priceCache
       /\ (now - priceCache[domain].timestamp) < cacheTimeout
    THEN priceCache[domain].data
    ELSE null

clearExpired_all(cache) == << >>

clearExpired(cache) ==
    LET keep == { d \in DOMAIN cache : ~ (now - cache[d].timestamp >= cacheTimeout) }
    IN  [d \in keep |-> cache[d]]

(***************************************************************************)
(* The vendor client (lib/opensrs-client.js).                              *)
(*                                                                         *)
(* A reply is what one POST ends in: "neterr" (axios.post rejects: no      *)
(* connection, timeout) or the response_code of the XML body.  A client    *)
(* result carries `thrown` (the call rejected instead of returning),       *)
(* `posts` (the axios.post calls it made) and the fields of the returned   *)
(* object, Undef when the object has no such field.                        *)
(***************************************************************************)
SuccessCodes == {"200", "210"}

Result(thrown, ok, err, code, text, hasRecords, records, posts) ==
    [thrown |-> thrown, success |-> ok, error |-> err, responseCode |-> code,
     responseText |-> text, hasRecords |-> hasRecords, records |-> records,
     posts |-> posts]

\* parseAttributes keeps the simple <item key="k">text</item> pairs and the four
\* service sections; a nested `records` subtree yields no data.records.
parseAttributes(payload) ==
    [hasRecords |-> FALSE, records |-> << >>]

\* The parser of the design (section 4.3): the grouped records come back as
\* one flat list in data.records.
flattenRecords(payload) ==
    [hasRecords |-> TRUE, records |-> payload]

\* the catch block of parseXmlResponse
ParseFailed ==
    Result(FALSE, FALSE, "Failed to parse XML response", "PARSE_ERROR",
           "message", FALSE, << >>, 1)

\* extractXmlValue finds no response_code / response_text item in the body:
\* both are null, success is false and nothing is thrown
NoCodeFound ==
    Result(FALSE, FALSE, Undef, null, null, FALSE, << >>, 1)

\* parseXmlResponse taking 200 for the only success code
parseXmlResponse_only200(code, payload) ==
    LET ok   == code = "200"
        data == IF parser = "flatten" /\ ok
                THEN flattenRecords(payload) ELSE parseAttributes(payload)
    IN  IF code = "garbled" THEN ParseFailed
        ELSE IF code = "nocode" THEN NoCodeFound
        ELSE Result(FALSE, ok, Undef, code, "text", data.hasRecords, data.records, 1)

\* parseXmlResponse: success is decided by the response code alone.  A body
\* that is no string ("garbled": xml.match is not a function) ends in the
\* catch block; a string without the expected items ("nocode") does not.
parseXmlResponse(code, payload) ==
    LET ok   == code \in SuccessCodes
        data == IF parser = "flatten" /\ ok
                THEN flattenRecords(payload) ELSE parseAttributes(payload)
    IN  IF code = "garbled" THEN ParseFailed
        ELSE IF code = "nocode" THEN NoCodeFound
        ELSE Result(FALSE, ok, Undef, code, "text", data.hasRecords, data.records, 1)

\* the catch block of makeRequest
RequestFailed ==
    Result(FALSE, FALSE, "message", "NETWORK_ERROR",
           "Network or connection error", FALSE, << >>, 1)

\* what a caller would see were the rejection of axios.post not caught
Rejected ==
    Result(TRUE, FALSE, "message", Undef, Undef, FALSE, << >>, 1)

makeRequest_nocatch(action, reply, payload) ==
    IF reply = "neterr" THEN Rejected ELSE parseXmlResponse(reply, payload)

makeRequest_retry(action, reply, payload) ==
    IF reply = "neterr"
    THEN [RequestFailed EXCEPT !.posts = 2]
    ELSE parseXmlResponse(reply, payload)

makeRequest(action, reply, payload) ==
    IF reply = "neterr" THEN RequestFailed ELSE parseXmlResponse(reply, payload)

\* an answer taken from the lookup cache without a POST
Cached(data) ==
    Result(FALSE, TRUE, Undef, data, "text", FALSE, << >>, 0)

lookupDomain(domain, reply) == makeRequest("LOOKUP", reply, << >>)

getPrice(domain, reply) == makeRequest("GET_PRICE", reply, << >>)

getDnsZone_cached(domain, reply) ==
    IF getCachedLookup(domain) # null
    THEN Cached(getCachedLookup(domain))
    ELSE makeRequest("get_dns_zone", reply, zone)

getDnsZone(domain, reply) == makeRequest("get_dns_zone", reply, zone)

setDnsZone(domain, records, reply) == makeRequest("set_dns_zone", reply, << >>)

createDnsZone(domain, records, reply) == makeRequest("create_dns_zone", reply, << >>)

registerDomain(domain, reply) == makeRequest("SW_REGISTER", reply, << >>)

modifyDomain(domain, reply) == makeRequest("MODIFY", reply, << >>)

(***************************************************************************)
(* Request bodies and responses of the single-record DNS handlers.         *)
(***************************************************************************)
Body(d, r, o, a) == [domain |-> d, record |-> r, oldRecord |-> o, action |-> a]

Resp(status, success, kind) == [status |-> status, success |-> success, kind |-> kind]

NoResp == Resp(0, "none", "none")

\* String.prototype.toUpperCase on the record types of the model
toUpperCase(t) == IF t = "a" THEN "A" ELSE t

\* (record.subdomain || '')
Sub(r) == IF r.subdomain = Undef THEN "" ELSE r.subdomain

\* record.ttl || 3600
TtlOr(r, dflt) == IF r.ttl = 0 THEN dflt ELSE r.ttl

Append1(list, r) == list \o << r >>

Map(list, F(_)) == [i \in 1..Len(list) |-> F(list[i])]

Some(list, P(_)) == \E i \in 1..Len(list) : P(list[i])

Filter(list, P(_)) == SelectSeq(list, P)

FirstIndex(list, P(_)) ==
    CHOOSE i \in 1..Len(list) : P(list[i]) /\ \A j \in 1..(i - 1) : ~ P(list[j])

\* `existingZone.data.records || []`
existingRecords(res) == IF res.hasRecords THEN res.records ELSE << >>

\* dns-routes and the older health-routes variant build the record they store
newRecord(record) ==
    Rec(toUpperCase(record.type), Sub(record), record.address,
        TtlOr(record, 3600), record.priority)

\* health-routes: type and subdomain, and the address when the key has one
recordMatches(existing, key) ==
    /\ existing.type = key.type
    /\ Sub(existing) = Sub(key)
    /\ (key.address = Undef \/ existing.address = key.address)

\* dns-routes: `${type}:${subdomain}`
recordKey(r) == << r.type, r.subdomain >>

(***************************************************************************)
(* POST /add-record                                                        *)
(***************************************************************************)
\* health-routes.js:196  validation
addRecord_validate(b) ==
    IF b.domain = Undef \/ b.record = NoRecord THEN Resp(400, "false", "validation")
    ELSE IF b.record.type = Undef \/ b.record.address = Undef
         THEN Resp(400, "false", "validation")
    ELSE NoResp

\* health-routes.js:196  steps 1 and 2
addRecord_merge(b, res) ==
    IF ~ res.success
    THEN [resp |-> Resp(500, "false", "read_failed"), final |-> << >>]
    ELSE [resp |-> NoResp,
          final |-> Append1(existingRecords(res),
                            [b.record EXCEPT !.ttl = TtlOr(b.record, 3600)])]

\* health-routes.js:244, 352, 446  the answer after set_dns_zone
healthRecord_answer(res) ==
    IF res.success THEN Resp(200, "true", "ok") ELSE Resp(500, "false", "update_failed")

\* dns-routes.js:627 and health-routes.js:1033  validation
dnsAddRecord_validate(b) ==
    IF b.domain = Undef \/ b.record = NoRecord \/ b.record.type = Undef
    THEN Resp(400, "false", "validation")
    ELSE IF b.record.address = Undef THEN Resp(400, "false", "validation")
    ELSE NoResp

\* dns-routes.js:627  read and merge
dnsAddRecord_merge(b, res) ==
    IF ~ res.success
    THEN [resp |-> Resp(500, "false", "read_failed"), final |-> << >>]
    ELSE [resp |-> NoResp,
          final |-> Append1(existingRecords(res), newRecord(b.record))]

\* health-routes.js:1033  read and merge: a failed read leaves the list empty
oldAddRecord_merge(b, res) ==
    [resp |-> NoResp,
     final |-> Append1(IF res.success THEN existingRecords(res) ELSE << >>,
                       newRecord(b.record))]

\* dns-routes.js:715, health-routes.js:1093  res.json({success: result.success, ...})
dnsRecord_answer(res) ==
    IF res.success THEN Resp(200, "true", "ok") ELSE Resp(200, "false", "update_failed")

(***************************************************************************)
(* POST /update-record                                                     *)
(***************************************************************************)
\* health-routes.js:291  validation (b.record is the body's newRecord)
updateRecord_validate(b) ==
    IF b.domain = Undef \/ b.oldRecord = NoRecord \/ b.record = NoRecord
    THEN Resp(400, "false", "validation")
    ELSE NoResp

\* health-routes.js:291  steps 1 and 2: every match is replaced by newRecord,
\* whose missing ttl is taken from the first match
updateRecord_merge(b, res) ==
    LET existing == existingRecords(res)
        Hit(r)   == recordMatches(r, b.oldRecord)
        first    == existing[FirstIndex(existing, Hit)]
        new      == [b.record EXCEPT !.ttl = TtlOr(b.record, TtlOr(first, 3600))]
        Put(r)   == IF Hit(r) THEN new ELSE r
    IN  IF ~ res.success
        THEN [resp |-> Resp(500, "false", "read_failed"), final |-> << >>]
        ELSE IF ~ Some(existing, Hit)
        THEN [resp |-> Resp(404, "false", "not_found"), final |-> << >>]
        ELSE [resp |-> NoResp, final |-> Map(existing, Put)]

\* dns-routes.js:845, health-routes.js:1194  find and replace by key, else append
dnsReplaceByKey(existing, updated) ==
    LET Hit(r) == recordKey(r) = recordKey(updated)
        Put(r) == IF Hit(r) THEN updated ELSE r
    IN  IF Some(existing, Hit) THEN Map(existing, Put) ELSE Append1(existing, updated)

\* dns-routes.js:763  read and merge
dnsUpdateRecord_merge(b, res) ==
    IF ~ res.success
    THEN [resp |-> Resp(500, "false", "read_failed"), final |-> << >>]
    ELSE [resp |-> NoResp,
          final |-> dnsReplaceByKey(existingRecords(res), newRecord(b.record))]

\* health-routes.js:1141  read and merge: no record list, no update
oldUpdateRecord_merge(b, res) ==
    IF ~ (res.success /\ res.hasRecords)
    THEN [resp |-> Resp(400, "false", "no_zone"), final |-> << >>]
    ELSE [resp |-> NoResp,
          final |-> dnsReplaceByKey(res.records, newRecord(b.record))]

(***************************************************************************)
(* POST /delete-record                                                     *)
(***************************************************************************)
\* health-routes.js:385  validation
deleteRecord_validate(b) ==
    IF b.domain = Undef \/ b.record = NoRecord
    THEN Resp(400, "false", "validation")
    ELSE NoResp

\* health-routes.js:385  steps 1 and 2: every match is filtered out
deleteRecord_merge(b, res) ==
    LET existing == existingRecords(res)
        Hit(r)   == recordMatches(r, b.record)
        Keep(r)  == ~ Hit(r)
    IN  IF ~ res.success
        THEN [resp |-> Resp(500, "false", "read_failed"), final |-> << >>]
        ELSE IF ~ Some(existing, Hit)
        THEN [resp |-> Resp(404, "false", "not_found"), final |-> << >>]
        ELSE [resp |-> NoResp, final |-> Filter(existing, Keep)]

(***************************************************************************)
(* POST /manage-record                                                     *)
(***************************************************************************)
\* health-routes.js:479  validation
manageRecord_validate(b) ==
    IF b.domain = Undef \/ b.record = NoRecord \/ b.action = Undef
    THEN Resp(400, "false", "validation")
    ELSE IF b.action \notin {"add", "update", "delete"}
    THEN Resp(400, "false", "validation")
    ELSE IF b.action = "update" /\ b.oldRecord = NoRecord
    THEN Resp(400, "false", "validation")
    ELSE NoResp

\* health-routes.js:516  steps 1 to 3
manageRecord_merge(b, res) ==
    LET existing == existingRecords(res)
        prepared == [b.record EXCEPT !.ttl = TtlOr(b.record, 3600)]
        key      == IF b.action = "update" THEN b.oldRecord ELSE b.record
        Hit(r)   == recordMatches(r, key)
        Keep(r)  == ~ Hit(r)
        Put(r)   == IF Hit(r) THEN prepared ELSE r
    IN  IF ~ res.success
        THEN [resp |-> Resp(500, "false", "read_failed"), final |-> << >>]
        ELSE IF b.action = "add"
        THEN [resp |-> NoResp, final |-> Append1(existing, prepared)]
        ELSE IF ~ Some(existing, Hit)
        THEN [resp |-> Resp(404, "false", "not_found"), final |-> << >>]
        ELSE IF b.action = "update"
        THEN [resp |-> NoResp, final |-> Map(existing, Put)]
        ELSE [resp |-> NoResp, final |-> Filter(existing, Keep)]

\* health-routes.js:630  steps 4 and 5
manageRecord_answer(res) ==
    IF res.success THEN Resp(200, "true", "ok") ELSE Resp(500, "false", "update_failed")

(***************************************************************************)
(* The handlers by route.                                                  *)
(***************************************************************************)
AddRoutes == {"health/add-record", "dns/add-record", "old/add-record"}
UpdateRoutes == {"health/update-record", "dns/update-record", "old/update-record"}
DeleteRoutes == {"health/delete-record"}
ManageRoutes == {"health/manage-record"}
DnsRoutes == AddRoutes \cup UpdateRoutes \cup DeleteRoutes \cup ManageRoutes

Validate(route, b) ==
    CASE route = "health/add-record"    -> addRecord_validate(b)
      [] route = "health/update-record" -> updateRecord_validate(b)
      [] route = "health/delete-record" -> deleteRecord_validate(b)
      [] route = "health/manage-record" -> manageRecord_validate(b)
      [] OTHER                          -> dnsAddRecord_validate(b)

Merge(route, b, res) ==
    CASE route = "health/add-record"    -> addRecord_merge(b, res)
      [] route = "dns/add-record"       -> dnsAddRecord_merge(b, res)
      [] route = "old/add-record"       -> oldAddRecord_merge(b, res)
      [] route = "health/update-record" -> updateRecord_merge(b, res)
      [] route = "dns/update-record"    -> dnsUpdateRecord_merge(b, res)
      [] route = "old/update-record"    -> oldUpdateRecord_merge(b, res)
      [] route = "health/delete-record" -> deleteRecord_merge(b, res)
      [] route = "health/manage-record" -> manageRecord_merge(b, res)

Answer(route, res) ==
    CASE route \in {"health/add-record", "health/update-record",
                    "health/delete-record"} -> healthRecord_answer(res)
      [] route = "health/manage-record"     -> manageRecord_answer(res)
      [] OTHER                              -> dnsRecord_answer(res)

\* every handler's catch block
Caught == Resp(500, "false", "exception")

\* health-routes.js:680-688: the catch block of manage-record builds its body
\* with `workflow`, a const of the try block: a ReferenceError inside the
\* catch, and no response is sent
manageRecord_catch == Resp(0, "none", "reference_error")

Catch(route) == IF route \in ManageRoutes THEN manageRecord_catch ELSE Caught

(***************************************************************************)
(* POST /lookup (domain-routes.js:43) and POST /zones (dns-routes.js:40).  *)
(***************************************************************************)
\* createValidationMiddleware: the 400 body has no success field
createValidationMiddleware(b) ==
    IF b.domain = Undef THEN Resp(400, "absent", "validation") ELSE NoResp

\* domain-routes.js:50-113: always res.json({success: true, available, ...})
lookup_answer(res) == Resp(200, "true", "ok")

\* domain-routes.js:54-94: with success only for 200/210, available is success
lookup_available(res) == IF res.success THEN "true" ELSE "false"

\* dns-routes.js:46-73
zones_answer(res) ==
    IF ~ res.success
    THEN IF res.responseCode = "415"
         THEN Resp(403, "false", "forbidden")
         ELSE Resp(500, "false", "update_failed")
    ELSE Resp(200, "true", "ok")

(***************************************************************************)
(* The state machine.                                                      *)
(***************************************************************************)
Slots == {"r1", "r2"}

DnsReplies == {"neterr", "garbled", "nocode", "200", "415", "465"}
LookupReplies == {"neterr", "garbled", "nocode", "210", "211", "465"}

Request(route, b, pc, resp) ==
    [route |-> route, body |-> b, pc |-> pc, resp |-> resp,
     zoneAtRead |-> << >>, readOk |-> FALSE, final |-> << >>,
     getCalls |-> 0, setCalls |-> 0, calls |-> 0, posts |-> 0,
     failedCall |-> FALSE, code |-> "none", available |-> "none"]

NoBody == Body(Undef, NoRecord, NoRecord, Undef)

Idle == Request("none", NoBody, "idle", NoResp)

NoCall == [method |-> "none", reply |-> "none", cached |-> null,
           result |-> Result(FALSE, TRUE, Undef, "none", Undef, FALSE, << >>, 0)]

RecordOrNone == BodyRecords \cup {NoRecord}

\* the bodies a route is exercised with
BodiesOf(route) ==
    IF route = "health/update-record"
    THEN { Body(Domain, n, o, Undef) :
              n \in {NoRecord, Rec("A", "www", "a3", 0, 0), Rec("a", "www", "a3", 0, 0)},
              o \in RecordOrNone }
         \cup { Body(Undef, Rec("A", "www", "a3", 0, 0), Rec("A", "www", "a1", 0, 0), Undef) }
    ELSE IF route = "health/manage-record"
    THEN { Body(Domain, r, NoRecord, a) : r \in RecordOrNone, a \in {"add", "delete"} }
         \cup { Body(Domain, n, o, "update") :
                  n \in {NoRecord, Rec("A", "www", "a3", 0, 0)}, o \in RecordOrNone }
         \cup { Body(d, Rec("A", "www", "a3", 0, 0), NoRecord, a) :
                  d \in {Domain, Undef}, a \in {"purge", Undef, "add"} }
    ELSE { Body(Domain, r, NoRecord, Undef) :
              r \in RecordOrNone \cup {Rec("a", "www", "a3", 0, 0)} }
         \cup { Body(Undef, Rec("A", "www", "a3", 0, 0), NoRecord, Undef) }

Init ==
    /\ zone \in Zones
    /\ parser \in {"lib", "flatten"}
    /\ reqs = [s \in Slots |-> Idle]
    /\ started = 0
    /\ now = 0
    /\ ticks = 0
    /\ lookupCache = << >>
    /\ priceCache = << >>
    /\ call = NoCall
    /\ domains = {}
    /\ apiKey = TheKey

Free(s) == reqs[s].pc \in {"idle", "done"}

\* a single-record DNS request arrives: local validation
Receive(s, route, b) ==
    /\ Free(s)
    /\ started < MaxRequests
    /\ started' = started + 1
    /\ LET v == Validate(route, b)
       IN  reqs' = [reqs EXCEPT ![s] =
                IF v = NoResp THEN Request(route, b, "get", NoResp)
                ELSE Request(route, b, "done", v)]
    /\ UNCHANGED <<apiKey, domains, zone, parser, now, ticks, lookupCache, priceCache, call>>

\* the awaited getDnsZone and the merge that follows it
GetZone(s, reply) ==
    /\ reqs[s].pc = "get"
    /\ LET r   == reqs[s]
           res == getDnsZone(r.body.domain, reply)
           m   == IF res.thrown THEN [resp |-> Catch(r.route), final |-> << >>]
                  ELSE Merge(r.route, r.body, res)
       IN  reqs' = [reqs EXCEPT ![s] =
                [r EXCEPT !.getCalls = @ + 1,
                          !.calls = @ + 1,
                          !.posts = @ + res.posts,
                          !.failedCall = @ \/ ~ res.success,
                          !.code = res.responseCode,
                          !.zoneAtRead = zone,
                          !.readOk = res.success,
                          !.final = m.final,
                          !.resp = m.resp,
                          !.pc = IF m.resp = NoResp THEN "set" ELSE "done"]]
    /\ UNCHANGED <<apiKey, domains, zone, parser, started, now, ticks, lookupCache, priceCache, call>>

\* the awaited setDnsZone and the answer; the vendor replaces the zone when it
\* accepts, and may have done so when the connection broke
SetZone(s, reply) ==
    /\ reqs[s].pc = "set"
    /\ LET r   == reqs[s]
           res == setDnsZone(r.body.domain, r.final, reply)
       IN  /\ reqs' = [reqs EXCEPT ![s] =
                  [r EXCEPT !.setCalls = @ + 1,
                            !.calls = @ + 1,
                            !.posts = @ + res.posts,
                            !.failedCall = @ \/ ~ res.success,
                            !.code = res.responseCode,
                            !.resp = IF res.thrown THEN Catch(r.route) ELSE Answer(r.route, res),
                            !.pc = "done"]]
           /\ zone' \in (IF reply = "200" THEN {r.final}
                         ELSE IF reply = "neterr" THEN {zone, r.final}
                         ELSE {zone})
    /\ UNCHANGED <<apiKey, domains, parser, started, now, ticks, lookupCache, priceCache, call>>

SimpleRoutes == {"domain/lookup", "dns/zones"}

\* POST /lookup or POST /zones arrives; only /lookup has a validation middleware
ReceiveSimple(s, route, b) ==
    /\ Free(s)
    /\ started < MaxRequests
    /\ started' = started + 1
    /\ LET v == IF route = "domain/lookup" THEN createValidationMiddleware(b) ELSE NoResp
       IN  reqs' = [reqs EXCEPT ![s] =
                IF v = NoResp THEN Request(route, b, "call", NoResp)
                ELSE Request(route, b, "done", v)]
    /\ UNCHANGED <<apiKey, domains, zone, parser, now, ticks, lookupCache, priceCache, call>>

\* the one awaited client call of /lookup (lookupDomain) or /zones
\* (createDnsZone with the default records = []) and the answer
CallVendor(s, reply) ==
    /\ reqs[s].pc = "call"
    /\ LET r   == reqs[s]
           isLookup == r.route = "domain/lookup"
           res == IF isLookup THEN lookupDomain(r.body.domain, reply)
                  ELSE createDnsZone(r.body.domain, << >>, reply)
       IN  /\ reply \in (IF isLookup THEN LookupReplies ELSE DnsReplies)
           /\ reqs' = [reqs EXCEPT ![s] =
                  [r EXCEPT !.calls = @ + 1,
                            !.posts = @ + res.posts,
                            !.failedCall = @ \/ ~ res.success,
                            !.code = res.responseCode,
                            !.available = IF isLookup /\ ~ res.thrown
                                          THEN lookup_available(res) ELSE "none",
                            !.resp = IF res.thrown THEN Caught
                                     ELSE IF isLookup THEN lookup_answer(res)
                                     ELSE zones_answer(res),
                            !.pc = "done"]]
           /\ zone' = IF ~ isLookup /\ reply = "200" THEN << >> ELSE zone
    /\ UNCHANGED <<apiKey, domains, parser, started, now, ticks, lookupCache, priceCache, call>>

Next ==
    \/ \E route \in DnsRoutes : \E b \in BodiesOf(route) : Receive("r1", route, b)
    \/ \E s \in Slots, reply \in DnsReplies : GetZone(s, reply)
    \/ \E s \in Slots, reply \in DnsReplies : SetZone(s, reply)
    \/ \E route \in SimpleRoutes, d \in {Domain, Undef} :
          ReceiveSimple("r1", route, Body(d, NoRecord, NoRecord, Undef))
    \/ \E s \in Slots, reply \in DnsReplies \cup LookupReplies : CallVendor(s, reply)

Spec == Init /\ [][Next]_vars

(***************************************************************************)
(* The cache and the client's API methods called directly.                 *)
(***************************************************************************)
TickSteps == {1000, 299000}
LookupData == {"210", "211"}
PriceData == {"9.99"}

ApiMethods == {"lookupDomain", "getPrice", "getDnsZone", "setDnsZone",
               "registerDomain", "modifyDomain"}

\* the methods that are neither lookup nor price
LiveMethods == ApiMethods \ {"lookupDomain", "getPrice"}

ApiCall(method, reply) ==
    CASE method = "lookupDomain"   -> lookupDomain(Domain, reply)
      [] method = "getPrice"       -> getPrice(Domain, reply)
      [] method = "getDnsZone"     -> getDnsZone(Domain, reply)
      [] method = "setDnsZone"     -> setDnsZone(Domain, zone, reply)
      [] method = "registerDomain" -> registerDomain(Domain, reply)
      [] method = "modifyDomain"   -> modifyDomain(Domain, reply)

InitCache ==
    /\ zone = << Rec("A", "www", "a1", 3600, 0) >>
    /\ parser \in {"lib", "flatten"}
    /\ reqs = [s \in Slots |-> Idle]
    /\ started = 0
    /\ now = 0
    /\ ticks = 0
    /\ lookupCache = << >>
    /\ priceCache = << >>
    /\ call = NoCall
    /\ domains = {}
    /\ apiKey = TheKey

CacheLookup(d, data) ==
    /\ lookupCache' = cacheLookup(lookupCache, d, data)
    /\ UNCHANGED <<apiKey, domains, zone, parser, reqs, started, now, ticks, priceCache, call>>

CachePrice(d, data) ==
    /\ priceCache' = cachePrice(priceCache, d, data)
    /\ UNCHANGED <<apiKey, domains, zone, parser, reqs, started, now, ticks, lookupCache, call>>

ClearExpired ==
    /\ lookupCache' = clearExpired(lookupCache)
    /\ priceCache' = clearExpired(priceCache)
    /\ UNCHANGED <<apiKey, domains, zone, parser, reqs, started, now, ticks, call>>

Tick(dt) ==
    /\ ticks < MaxTicks
    /\ ticks' = ticks + 1
    /\ now' = now + dt
    /\ UNCHANGED <<apiKey, domains, zone, parser, reqs, started, lookupCache, priceCache, call>>

\* one invocation of a client API method for the domain
ClientCall(method, reply) ==
    /\ reply \in (IF method = "lookupDomain" THEN LookupReplies ELSE DnsReplies)
    /\ call' = [method |-> method, reply |-> reply,
                cached |-> getCachedLookup(Domain),
                result |-> ApiCall(method, reply)]
    /\ UNCHANGED <<apiKey, domains, zone, parser, reqs, started, now, ticks, lookupCache, priceCache>>

NextCache ==
    \/ \E data \in LookupData : CacheLookup(Domain, data)
    \/ \E data \in PriceData : CachePrice(Domain, data)
    \/ ClearExpired
    \/ \E dt \in TickSteps : Tick(dt)
    \/ \E method \in ApiMethods, reply \in DnsReplies \cup LookupReplies :
          ClientCall(method, reply)

SpecCache == InitCache /\ [][NextCache]_vars

(***************************************************************************)
(* Properties of the single-record DNS handlers (specification Spec).      *)
(***************************************************************************)
IsError(resp) == resp.success = "false" /\ resp.status \in {400, 403, 404, 500}

\* the number of records of the zone read at step 1 that share the key's
\* type and subdomain
SameKeyCount(list, key) ==
    Cardinality({ i \in 1..Len(list) :
                    list[i].type = key.type /\ Sub(list[i]) = Sub(key) })

\* C1: a single-record DNS operation whose step-1 get_dns_zone did not
\* succeed is aborted with an error response and never calls set_dns_zone:
\* after the failed read its count of set_dns_zone calls stays zero and its
\* answer is an error.
C1_FailedReadAborts ==
    \A s \in Slots :
        LET r == reqs[s]
        IN  (r.route \in DnsRoutes /\ r.getCalls > 0 /\ ~ r.readOk)
            => /\ r.setCalls = 0
               /\ r.pc = "done" => IsError(r.resp)

\* C2: safe-add: when add-record read the zone successfully and has finished,
\* set_dns_zone was called exactly once, with the |R| records read followed
\* by the new record N, |R| + 1 records in all.
C2_AddSendsAllPlusOne ==
    \A s \in Slots :
        LET r == reqs[s]
        IN  (r.route \in {"health/add-record", "dns/add-record"}
                /\ r.readOk /\ r.pc = "done")
            => /\ r.setCalls = 1
               /\ Len(r.final) = Len(r.zoneAtRead) + 1
               /\ SubSeq(r.final, 1, Len(r.zoneAtRead)) = r.zoneAtRead
               /\ r.final[Len(r.final)].address = r.body.record.address

\* a delete whose key has no address while two or more records of the zone
\* read share its type and subdomain
AmbiguousDelete(r) ==
    /\ \/ r.route \in DeleteRoutes
       \/ r.route \in ManageRoutes /\ r.body.action = "delete"
    /\ r.getCalls > 0 /\ r.readOk
    /\ r.body.record.address = Undef
    /\ SameKeyCount(r.zoneAtRead, r.body.record) >= 2

AmbiguousUpdate(r) ==
    /\ r.getCalls > 0 /\ r.readOk
    /\ \/ /\ \/ r.route = "health/update-record"
             \/ r.route \in ManageRoutes /\ r.body.action = "update"
          /\ r.body.oldRecord.address = Undef
          /\ SameKeyCount(r.zoneAtRead, r.body.oldRecord) >= 2
       \/ /\ r.route \in {"dns/update-record", "old/update-record"}
          /\ SameKeyCount(r.zoneAtRead, newRecord(r.body.record)) >= 2

\* C4: an ambiguous update is answered with an error and issues no
\* set_dns_zone call.
C4_AmbiguousUpdateRejected ==
    \A s \in Slots :
        LET r == reqs[s]
        IN  AmbiguousUpdate(r)
            => /\ r.setCalls = 0
               /\ r.pc = "done" => IsError(r.resp)

(***************************************************************************)
(* Properties of the client and the cache (specification SpecCache).       *)
(***************************************************************************)
\* C5: a lookup of a domain made while the lookup cache holds an entry for
\* it younger than five minutes issues no outbound POST, and a lookup made
\* when the cache holds no such entry issues one.
C5_CachedLookupSkipsNetwork ==
    call.method = "lookupDomain"
        => IF call.cached # null THEN call.result.posts = 0
           ELSE call.result.posts = 1

\* C6: makeRequest never throws to its caller, and when the POST ends in a
\* network or timeout error the object it returns has success = false and
\* carries the fields error, responseCode and responseText.
C6_MakeRequestNeverThrows ==
    call.method # "none"
        => /\ ~ call.result.thrown
           /\ call.reply = "neterr"
                => /\ call.result.success = FALSE
                   /\ call.result.error # Undef
                   /\ call.result.responseCode # Undef
                   /\ call.result.responseText # Undef

\* a client call whose POST met a network error has returned
C6_NetworkErrorReturned ==
    /\ call.method # "none"
    /\ call.reply = "neterr"
    /\ call.result.responseCode = "NETWORK_ERROR"

C7_AtMostOnePostPerCall ==
    \A s \in Slots : reqs[s].posts <= reqs[s].calls

\* a request whose set_dns_zone met a network error or a parse error and
\* that was answered with the failure after two calls and two POSTs
C7_FailedSetNotRetried ==
    \E s \in Slots :
        /\ reqs[s].pc = "done"
        /\ reqs[s].setCalls = 1
        /\ reqs[s].code \in {"NETWORK_ERROR", "PARSE_ERROR"}
        /\ reqs[s].calls = 2
        /\ reqs[s].posts = 2

\* a record that is to be stored lacks its type or its address
LacksTypeOrAddress(rec) == rec.type = Undef \/ rec.address = Undef

\* the request lacks a required field, has a record to store without type or
\* address, or names an action that is none of add, update, delete
FailsValidation(route, b) ==
    \/ b.domain = Undef
    \/ /\ route \in AddRoutes \cup {"dns/update-record", "old/update-record"}
       /\ b.record = NoRecord \/ LacksTypeOrAddress(b.record)
    \/ /\ route = "health/update-record"
       /\ b.oldRecord = NoRecord \/ b.record = NoRecord \/ LacksTypeOrAddress(b.record)
    \/ /\ route \in DeleteRoutes
       /\ b.record = NoRecord
    \/ /\ route \in ManageRoutes
       /\ \/ b.record = NoRecord
          \/ b.action \notin {"add", "update", "delete"}
          \/ b.action = "update" /\ b.oldRecord = NoRecord
          \/ b.action \in {"add", "update"} /\ LacksTypeOrAddress(b.record)

\* C8: a request that fails local validation is answered with an error
\* before any vendor call: it invokes no client method and issues no POST,
\* and its answer is an HTTP 400.
C8_InvalidRequestMakesNoCall ==
    \A s \in Slots :
        LET r == reqs[s]
        IN  (r.route \in DnsRoutes \cup {"domain/lookup"}
                /\ FailsValidation(r.route, r.body))
            => /\ r.calls = 0
               /\ r.posts = 0
               /\ r.pc = "done" => r.resp.status = 400

\* the request failed: it was rejected locally, or a vendor call it made
\* ended in a vendor-reported failure, a network error or a parse error (a
\* lookup answered 211, domain taken, is an answer and not a failure)
FailedRequest(r) ==
    \/ r.resp.kind # "ok"
    \/ r.failedCall /\ ~ (r.route = "domain/lookup" /\ r.code = "211")

\* C9: every failed request is answered as an error (HTTP 400, 403 or 500,
\* success = false): the answer to a failed request never has a 2xx status
\* and never a body with success = true.
C9_FailureNeverAnsweredAsSuccess ==
    \A s \in Slots :
        LET r == reqs[s]
        IN  (r.pc = "done" /\ FailedRequest(r))
            => /\ r.resp.status \notin 200..299
               /\ r.resp.success # "true"

(***************************************************************************)
(* The cache left to itself (specification SpecSweep): entries are stored, *)
(* POST /cache/clear (unnamed/part_007) calls clearExpired when a caller   *)
(* asks for it, and time passes.  The code starts no timer, so only the    *)
(* passing of time is fair.                                                *)
(***************************************************************************)
NextSweep ==
    \/ \E data \in LookupData : CacheLookup(Domain, data)
    \/ \E data \in PriceData : CachePrice(Domain, data)
    \/ ClearExpired
    \/ \E dt \in TickSteps : Tick(dt)

SpecSweep ==
    InitCache /\ [][NextSweep]_vars /\ WF_vars(\E dt \in TickSteps : Tick(dt))

\* the map holds an entry for the domain that is as old as the TTL or older
Expired(cache) ==
    Domain \in DOMAIN cache /\ now - cache[Domain].timestamp >= cacheTimeout

\* C11: an entry older than the TTL is eventually removed from its map (or
\* replaced by a fresh one) without any caller asking for it.
C11_ExpiredEventuallyRemoved ==
    /\ Expired(lookupCache) ~> ~ Expired(lookupCache)
    /\ Expired(priceCache) ~> ~ Expired(priceCache)

(***************************************************************************)
(* One outbound POST in flight (specification SpecTransport).  makeRequest *)
(* awaits axios.post(this.apiHost, xml, { headers }); the vendor answers   *)
(* when it answers, and axios rejects the promise when its timeout option  *)
(* has elapsed.  Time passes; the vendor owes no answer.                   *)
(***************************************************************************)
\* the timeout option of the axios.post call: none is passed, and axios takes
\* 0, which means no timeout
axiosTimeout == 0

\* how long the model watches a pending POST, in milliseconds
MaxWait == 20000

Pending(method) ==
    [method |-> method, reply |-> "pending", cached |-> null,
     result |-> NoCall.result, sentAt |-> now]

\* a client API method is invoked: makeRequest issues the POST and awaits it
Post(method) ==
    /\ call.reply # "pending"
    /\ started < MaxRequests
    /\ started' = started + 1
    /\ call' = Pending(method)
    /\ UNCHANGED <<apiKey, domains, zone, parser, reqs, now, ticks, lookupCache, priceCache>>

\* the vendor answers the pending POST (or the connection fails)
Respond(reply) ==
    /\ call.reply = "pending"
    /\ reply \in (IF call.method = "lookupDomain" THEN LookupReplies ELSE DnsReplies)
    /\ call' = [method |-> call.method, reply |-> reply, cached |-> null,
                result |-> ApiCall(call.method, reply)]
    /\ UNCHANGED <<apiKey, domains, zone, parser, reqs, started, now, ticks, lookupCache, priceCache>>

\* time passes while the POST is pending; axios rejects it (ECONNABORTED, the
\* catch block of makeRequest) once a timeout > 0 has elapsed
Wait(dt) ==
    /\ call.reply = "pending"
    /\ now - call.sentAt < MaxWait
    /\ now' = now + dt
    /\ call' = IF axiosTimeout > 0 /\ now' - call.sentAt >= axiosTimeout
               THEN [method |-> call.method, reply |-> "neterr", cached |-> null,
                     result |-> ApiCall(call.method, "neterr")]
               ELSE call
    /\ UNCHANGED <<apiKey, domains, zone, parser, reqs, started, ticks, lookupCache, priceCache>>

NextTransport ==
    \/ \E method \in ApiMethods : Post(method)
    \/ \E reply \in DnsReplies \cup LookupReplies : Respond(reply)
    \/ \E dt \in TickSteps : Wait(dt)

SpecTransport ==
    InitCache /\ [][NextTransport]_vars /\ WF_vars(\E dt \in TickSteps : Wait(dt))

\* C12: every outbound POST ends: a pending call leads to a returned result
\* (a failure object once the timeout has elapsed) even when the vendor never
\* answers.
C12_PendingPostEnds ==
    (call.reply = "pending") ~> (call.reply # "pending")

\* C13: a response body that lacks the expected structure makes
\* parseXmlResponse return, never throw, an object with success = false and
\* responseCode 'PARSE_ERROR'.
C13_ParseFailureIsParseError ==
    (call.method # "none" /\ call.reply \in {"garbled", "nocode"})
        => /\ ~ call.result.thrown
           /\ call.result.success = FALSE
           /\ call.result.responseCode = "PARSE_ERROR"

(***************************************************************************)
(* The XML of a DNS zone (specification SpecXml).  An XML fragment is the  *)
(* list of its <item key="k"> elements; an item holds text, or the items   *)
(* of the dt_assoc / dt_array inside it.                                   *)
(***************************************************************************)
MaxRecords == 3

Leaf(k, v) == [key |-> k, text |-> v, kids |-> << >>]

Node(k, kids) == [key |-> k, text |-> Undef, kids |-> kids]

\* a record as the callers pass it; priority, weight and port are 0 when absent
DnsRec(t, s, a, p, w, o) ==
    [type |-> t, subdomain |-> s, address |-> a, priority |-> p,
     weight |-> w, port |-> o]

ValidRecords ==
    { DnsRec("A", "www", "a1", 0, 0, 0),
      DnsRec("A", "", "a2", 0, 0, 0),
      DnsRec("MX", "", "m1", 10, 0, 0),
      DnsRec("MX", "", "m2", 20, 0, 0),
      DnsRec("SRV", "_sip", "s1", 5, 2, 5060),
      DnsRec("TXT", "", "t1", 0, 0, 0) }

RecordLists == SeqsUpTo(ValidRecords, MaxRecords)

\* String(n || dflt)
NumOr(n, dflt) == ToString(IF n = 0 THEN dflt ELSE n)

\* Object.keys(recordsByType): the types in the order of first appearance
RECURSIVE TypesOf(_)
TypesOf(records) ==
    IF records = << >> THEN << >>
    ELSE LET rest == TypesOf(SubSeq(records, 1, Len(records) - 1))
             t    == records[Len(records)].type
         IN  IF \E i \in 1..Len(rest) : rest[i] = t THEN rest ELSE Append(rest, t)

\* recordsByType[type]
OfType(records, t) == SelectSeq(records, LAMBDA r : r.type = t)

\* set-dns-zone.js:27-68: the dt_assoc of one record of a group
recordXml(r) ==
    << Leaf("subdomain", r.subdomain) >> \o
    CASE r.type = "A"   -> << Leaf("ip_address", r.address) >>
      [] r.type = "MX"  -> << Leaf("priority", NumOr(r.priority, 10)),
                              Leaf("hostname", r.address) >>
      [] r.type = "TXT" -> << Leaf("text", r.address) >>
      [] r.type = "SRV" -> << Leaf("priority", NumOr(r.priority, 10)),
                              Leaf("weight", NumOr(r.weight, 1)),
                              Leaf("hostname", r.address),
                              Leaf("port", NumOr(r.port, 80)) >>
      [] OTHER          -> << Leaf("address", r.address) >>

\* set-dns-zone.js:6-107: the inner of <item key="attributes"><dt_assoc>
buildSetZoneXml(domain, records) ==
    LET types    == TypesOf(records)
        group(t) == LET rs == OfType(records, t)
                    IN  Node(t, [i \in 1..Len(rs) |->
                                   Node(ToString(i - 1), recordXml(rs[i]))])
    IN  << Leaf("domain", domain),
           Node("records", [j \in 1..Len(types) |-> group(types[j])]) >>

\* objectToXml (opensrs-client.js:72-94) of { domain, records }: an array is
\* printed item by item with `${item}`, which for an object is the text
\* [object Object]
objectToXml(domain, records) ==
    << Leaf("domain", domain),
       Node("records", [i \in 1..Len(records) |->
                          Leaf(ToString(i - 1), "[object Object]")]) >>

\* parseAttributes, first pass: every <item key="k">text</item> of the
\* fragment, at any depth, in document order (the regular expression needs
\* at least one character of text and no '<' in it)
RECURSIVE simpleItems(_)
simpleItems(xml) ==
    IF xml = << >> THEN << >>
    ELSE LET h == Head(xml)
         IN  (IF h.text # Undef
              THEN (IF h.text # "" THEN << h >> ELSE << >>)
              ELSE simpleItems(h.kids))
             \o simpleItems(Tail(xml))

\* parseAttributes (opensrs-client.js:299-339) on a zone: result[key] = text
\* for every simple item, a later item overwriting an earlier one; a zone has
\* none of the four service sections, and the two common flags are null when
\* the fragment has no such item
parseZoneAttributes(xml) ==
    LET items == simpleItems(xml)
        keys  == { items[i].key : i \in 1..Len(items) }
        flags == {"is_search_completed", "request_response_time"}
        last(k) == CHOOSE i \in 1..Len(items) :
                      /\ items[i].key = k
                      /\ \A j \in (i + 1)..Len(items) : items[j].key # k
    IN  [k \in keys \cup flags |->
            IF k \in keys THEN items[last(k)].text ELSE null]

\* the input grouped by type and flattened again
Regrouped(records) ==
    LET types == TypesOf(records)
        RECURSIVE Cat(_)
        Cat(j) == IF j > Len(types) THEN << >>
                  ELSE OfType(records, types[j]) \o Cat(j + 1)
    IN  Cat(1)

InitXml ==
    /\ zone \in RecordLists
    /\ parser = "lib"
    /\ reqs = [s \in Slots |-> Idle]
    /\ started = 0
    /\ now = 0
    /\ ticks = 0
    /\ lookupCache = << >>
    /\ priceCache = << >>
    /\ call = NoCall
    /\ domains = {}
    /\ apiKey = TheKey

\* the set-zone XML of the template is parsed back
RoundTrip ==
    /\ call' = [method |-> "roundTrip",
                xml |-> buildSetZoneXml(Domain, zone),
                data |-> parseZoneAttributes(buildSetZoneXml(Domain, zone))]
    /\ UNCHANGED <<apiKey, domains, zone, parser, reqs, started, now, ticks, lookupCache, priceCache>>

\* setDnsZone(domain, records): makeRequest builds the envelope with objectToXml
BuildEnvelope ==
    /\ call' = [method |-> "setDnsZone",
                xml |-> objectToXml(Domain, zone),
                data |-> << >>]
    /\ UNCHANGED <<apiKey, domains, zone, parser, reqs, started, now, ticks, lookupCache, priceCache>>

NextXml == RoundTrip \/ BuildEnvelope

SpecXml == InitXml /\ [][NextXml]_vars

\* C14: parsing the set-zone XML built from a non-empty list of records
\* yields a flat list data.records equal to the input grouped by type and
\* flattened again.
C14_ZoneRoundTrip ==
    (call.method = "roundTrip" /\ zone # << >>)
        => /\ "records" \in DOMAIN call.data
           /\ call.data["records"] = Regrouped(zone)

\* the fragment encodes record r: a group keyed by r's type holds a dt_assoc
\* with r's address and, for MX and SRV, r's priority
EncodesRecord(xml, r) ==
    \E g \in 1..Len(xml[2].kids) :
        /\ xml[2].kids[g].key = r.type
        /\ \E k \in 1..Len(xml[2].kids[g].kids) :
              LET fields == xml[2].kids[g].kids[k].kids
              IN  /\ \E f \in 1..Len(fields) : fields[f].text = r.address
                  /\ r.type \in {"MX", "SRV"}
                       => \E f \in 1..Len(fields) :
                             fields[f] = Leaf("priority", ToString(r.priority))

\* C15: the XML that setDnsZone sends encodes every record of the list as a
\* dt_assoc in the dt_array grouped under its type, with its type-specific
\* fields (an MX with priority 10 has <item key="priority">10</item>).
C15_SetZoneXmlEncodesRecords ==
    call.method = "setDnsZone"
        => \A i \in 1..Len(zone) : EncodesRecord(call.xml, zone[i])

Occurrences(list, e) == Cardinality({ i \in 1..Len(list) : list[i] = e })

\* record e of the zone is one the update request r is aimed at: it has the
\* type and subdomain (and the address, when one is given) of oldRecord for
\* the health route, the type and subdomain of the record for the dns route
MatchesUpdateKey(r, e) ==
    IF r.route = "health/update-record"
    THEN /\ e.type = r.body.oldRecord.type
         /\ Sub(e) = Sub(r.body.oldRecord)
         /\ r.body.oldRecord.address \in {Undef, e.address}
    ELSE /\ e.type = toUpperCase(r.body.record.type)
         /\ Sub(e) = Sub(r.body.record)

\* C17: after a successful update-record every record of the zone that does
\* not match the update key is, unchanged and exactly once, in the list
\* passed to set_dns_zone.
C17_UpdateKeepsOtherRecords ==
    \A s \in Slots :
        LET r == reqs[s]
        IN  (r.route \in {"health/update-record", "dns/update-record"}
                /\ r.pc = "done" /\ r.resp.kind = "ok")
            => \A i \in 1..Len(r.zoneAtRead) :
                  ~ MatchesUpdateKey(r, r.zoneAtRead[i])
                     => Occurrences(r.final, r.zoneAtRead[i]) = 1

MatchesNothing(r) ==
    /\ r.getCalls > 0 /\ r.readOk
    /\ \/ /\ r.route \in DeleteRoutes
          /\ SameKeyCount(r.zoneAtRead, r.body.record) = 0
       \/ /\ r.route \in {"health/update-record", "dns/update-record"}
          /\ \A i \in 1..Len(r.zoneAtRead) : ~ MatchesUpdateKey(r, r.zoneAtRead[i])

\* C19: a delete-record or update-record whose key matches no existing
\* record is answered with a not-found error and never calls set_dns_zone.
C19_NoMatchIsNotFound ==
    \A s \in Slots :
        LET r == reqs[s]
        IN  MatchesNothing(r)
            => /\ r.setCalls = 0
               /\ r.pc = "done" => r.resp.kind = "not_found"

\* C20: a manage-record request that reports step5_confirm success has read
\* the zone a second time, after its set_dns_zone call.
C20_ConfirmReadsZoneAgain ==
    \A s \in Slots :
        LET r == reqs[s]
        IN  (r.route \in ManageRoutes /\ r.pc = "done" /\ r.resp.kind = "ok"
                /\ ~ FailsValidation(r.route, r.body))
            => /\ r.setCalls = 1
               /\ r.getCalls = 2

(***************************************************************************)
(* POST /register (dns-routes.js:1013) and DELETE /domain/:domainId        *)
(* (user-domain-routes.js:461) over the Domain collection.                 *)
(***************************************************************************)
MaxRegister == 3

Users == {"u1"}

\* String.prototype.toLowerCase on the domain names of the model
toLowerCase(d) == IF d = "Example.COM" THEN "example.com" ELSE d

\* complete: regUsername, regPassword, contactSet.owner and the eight owner
\* fields the handler asks for are present; state: contactSet.owner.state is
RegBody(domain, userId, complete, state) ==
    [domain |-> domain, userId |-> userId, complete |-> complete, state |-> state]

RegBodies ==
    { RegBody(d, "u1", TRUE, st) : d \in {Domain, "Example.COM"}, st \in BOOLEAN }
    \cup { RegBody(Domain, "ghost", TRUE, TRUE), RegBody(Domain, "u1", FALSE, TRUE),
           RegBody(Undef, "u1", TRUE, TRUE) }

NoRegBody == RegBody(Undef, Undef, FALSE, FALSE)

\* a Domain document as POST /register builds it
DomainDoc(id, b) ==
    [id |-> id, domainName |-> toLowerCase(b.domain), owner |-> b.userId,
     status |-> "active", ownerState |-> b.state]

RegRequest(route, b, id, pc, resp, seq) ==
    [route |-> route, body |-> b, domainId |-> id, pc |-> pc, resp |-> resp,
     seq |-> seq, vendorCalls |-> 0, vendorOk |-> FALSE, saved |-> FALSE]

\* the required-field tests of POST /register
register_validate(b) ==
    IF b.domain = Undef \/ ~ b.complete \/ b.userId = Undef
    THEN Resp(400, "false", "missing_fields")
    ELSE NoResp

\* await User.findById(userId)
register_user(b) ==
    IF b.userId \notin Users THEN Resp(404, "false", "user_not_found") ELSE NoResp

\* await Domain.findOne({ domainName: domain.toLowerCase() })
register_existing(b) ==
    IF \E d \in domains : d.domainName = toLowerCase(b.domain)
    THEN Resp(400, "false", "already_registered")
    ELSE NoResp

\* domainRecord.save(): the schema's validators (contacts.owner.state is
\* required) and the unique index on domainName; FALSE when save() rejects
save_accepts(doc) ==
    /\ doc.ownerState
    /\ ~ \E d \in domains : d.domainName = doc.domainName

InitRegister ==
    /\ zone = << >>
    /\ parser = "lib"
    /\ reqs = [s \in Slots |-> RegRequest("none", NoRegBody, 0, "idle", NoResp, 0)]
    /\ started = 0
    /\ now = 0
    /\ ticks = 0
    /\ lookupCache = << >>
    /\ priceCache = << >>
    /\ call = NoCall
    /\ domains = {}
    /\ apiKey = TheKey

\* POST /register arrives: the synchronous validation
RegisterReceive(s, b) ==
    /\ Free(s)
    /\ started < MaxRegister
    /\ started' = started + 1
    /\ LET v == register_validate(b)
       IN  reqs' = [reqs EXCEPT ![s] =
                RegRequest("dns/register", b, 0, IF v = NoResp THEN "findUser" ELSE "done",
                           v, started + 1)]
    /\ UNCHANGED <<apiKey, domains, zone, parser, now, ticks, lookupCache, priceCache, call>>

RegisterFindUser(s) ==
    /\ reqs[s].pc = "findUser"
    /\ LET v == register_user(reqs[s].body)
       IN  reqs' = [reqs EXCEPT ![s].resp = v,
                                ![s].pc = IF v = NoResp THEN "findDomain" ELSE "done"]
    /\ UNCHANGED <<apiKey, domains, zone, parser, started, now, ticks, lookupCache, priceCache, call>>

RegisterFindDomain(s) ==
    /\ reqs[s].pc = "findDomain"
    /\ LET v == register_existing(reqs[s].body)
       IN  reqs' = [reqs EXCEPT ![s].resp = v,
                                ![s].pc = IF v = NoResp THEN "register" ELSE "done"]
    /\ UNCHANGED <<apiKey, domains, zone, parser, started, now, ticks, lookupCache, priceCache, call>>

\* await req.opensrsClient.registerDomain(registrationData) and the branch on
\* opensrsResult.success
RegisterVendor(s, reply) ==
    /\ reqs[s].pc = "register"
    /\ LET res == registerDomain(reqs[s].body.domain, reply)
       IN  reqs' = [reqs EXCEPT ![s].vendorCalls = @ + 1,
                                ![s].vendorOk = res.success,
                                ![s].resp = IF res.success THEN NoResp
                                            ELSE Resp(500, "false", "registration_failed"),
                                ![s].pc = IF res.success THEN "save" ELSE "done"]
    /\ UNCHANGED <<apiKey, domains, zone, parser, started, now, ticks, lookupCache, priceCache, call>>

\* await domainRecord.save() and the answer; a rejected save is caught
RegisterSave(s) ==
    /\ reqs[s].pc = "save"
    /\ LET doc == DomainDoc(reqs[s].seq, reqs[s].body)
       IN  IF save_accepts(doc)
           THEN /\ domains' = domains \cup {doc}
                /\ reqs' = [reqs EXCEPT ![s].saved = TRUE,
                                        ![s].resp = Resp(200, "true", "ok"),
                                        ![s].pc = "done"]
           ELSE /\ domains' = domains
                /\ reqs' = [reqs EXCEPT ![s].resp = Caught, ![s].pc = "done"]
    /\ UNCHANGED <<apiKey, zone, parser, started, now, ticks, lookupCache, priceCache, call>>

\* DELETE /domain/:domainId: await Domain.findByIdAndDelete(domainId) and the
\* answer
DeleteDomain(s, id) ==
    /\ Free(s)
    /\ started < MaxRegister
    /\ started' = started + 1
    /\ LET found == \E d \in domains : d.id = id
       IN  /\ domains' = { d \in domains : d.id # id }
           /\ reqs' = [reqs EXCEPT ![s] =
                  RegRequest("user/domain", NoRegBody, id, "done",
                             IF found THEN Resp(200, "true", "ok")
                             ELSE Resp(404, "false", "domain_not_found"),
                             started + 1)]
    /\ UNCHANGED <<apiKey, zone, parser, now, ticks, lookupCache, priceCache, call>>

NextRegister ==
    \/ \E s \in Slots, b \in RegBodies : RegisterReceive(s, b)
    \/ \E s \in Slots : RegisterFindUser(s)
    \/ \E s \in Slots : RegisterFindDomain(s)
    \/ \E s \in Slots, reply \in DnsReplies : RegisterVendor(s, reply)
    \/ \E s \in Slots : RegisterSave(s)
    \/ \E s \in Slots, id \in 0..MaxRegister : DeleteDomain(s, id)

SpecRegister == InitRegister /\ [][NextRegister]_vars

IsRegister(r) == r.route = "dns/register"

\* C21: a Domain document exists only for a name some request registered with
\* the vendor successfully, and a request whose vendor registration succeeded
\* ends with exactly one Domain document of that name stored by it.
C21_DocumentIffVendorSuccess ==
    \A s \in Slots :
        IsRegister(reqs[s]) =>
            /\ reqs[s].saved => reqs[s].vendorOk
            /\ (reqs[s].pc = "done" /\ reqs[s].vendorOk) => reqs[s].saved

\* C22: a DELETE /domain/:domainId that answers 200 leaves the document in
\* the collection, marked removed.
C22_RemovalIsSoft ==
    \A s \in Slots :
        (reqs[s].route = "user/domain" /\ reqs[s].resp.status = 200) =>
            /\ reqs[s].vendorCalls = 0
            /\ \E d \in domains : d.id = reqs[s].domainId /\ d.status = "deleted"
\* C30: of the /register requests for one domain name, a request received
\* after one that registered the name with the vendor never reaches the
\* vendor registration call: it is answered 400 'already registered'.
C30_OneRegistrationPerName ==
    \A s, t \in Slots :
        (/\ IsRegister(reqs[s]) /\ IsRegister(reqs[t])
         /\ toLowerCase(reqs[s].body.domain) = toLowerCase(reqs[t].body.domain)
         /\ reqs[s].body.state /\ reqs[t].body.state
         /\ reqs[s].vendorOk
         /\ reqs[s].seq < reqs[t].seq)
        => /\ reqs[t].vendorCalls = 0
           /\ reqs[t].pc = "done" => reqs[t].resp.status \in {400, 404}
(***************************************************************************)
(* POST /create-zone (dns-routes.js:403): the record validation, the       *)
(* lookup that precedes the call and createDnsZone.                        *)
(***************************************************************************)
MaxInput == 2

\* the records a caller may put in the body; MX and SRV with and without
\* their numbers, and a record without type
InputRecords ==
    { DnsRec("A", "www", "a1", 0, 0, 0),
      DnsRec("MX", "", "m1", 10, 0, 0),
      DnsRec("MX", "", "m2", 0, 0, 0),
      DnsRec("SRV", "_sip", "s1", 5, 2, 5060),
      DnsRec("SRV", "_sip", "s2", 5, 0, 0),
      DnsRec("SRV", "_sip", "s3", 0, 0, 0),
      DnsRec(Undef, "www", "a1", 0, 0, 0) }

ZoneBody(d, records) == [domain |-> d, records |-> records]

ZoneRequest(b, pc, resp) ==
    [route |-> "dns/create-zone", body |-> b, pc |-> pc, resp |-> resp,
     lookupCalls |-> 0, createCalls |-> 0, sent |-> << >>]

\* dns-routes.js:407-430
createZone_validate(b) ==
    IF b.domain = Undef THEN Resp(400, "false", "missing_domain")
    ELSE IF \E i \in 1..Len(b.records) :
               b.records[i].type = Undef \/ b.records[i].address = Undef
    THEN Resp(400, "false", "missing_type_or_address")
    ELSE IF \E i \in 1..Len(b.records) :
               b.records[i].type = "MX" /\ b.records[i].priority = 0
    THEN Resp(400, "false", "mx_without_priority")
    ELSE NoResp

\* dns-routes.js:436-449: the request ends when the lookup does not succeed
createZone_check(res) ==
    IF ~ res.success THEN Resp(400, "false", "domain_not_found") ELSE NoResp

InitZone ==
    /\ zone = << >>
    /\ parser = "lib"
    /\ reqs = [s \in Slots |-> Idle]
    /\ started = 0
    /\ now = 0
    /\ ticks = 0
    /\ lookupCache = << >>
    /\ priceCache = << >>
    /\ call = NoCall
    /\ domains = {}
    /\ apiKey = TheKey

CreateZoneReceive(s, b) ==
    /\ Free(s)
    /\ started < MaxRequests
    /\ started' = started + 1
    /\ LET v == createZone_validate(b)
       IN  reqs' = [reqs EXCEPT ![s] =
                ZoneRequest(b, IF v = NoResp THEN "lookup" ELSE "done", v)]
    /\ UNCHANGED <<apiKey, domains, zone, parser, now, ticks, lookupCache, priceCache, call>>

\* await lookupDomain(domain)
CreateZoneLookup(s, reply) ==
    /\ reqs[s].pc = "lookup"
    /\ LET res == lookupDomain(reqs[s].body.domain, reply)
           v   == createZone_check(res)
       IN  reqs' = [reqs EXCEPT ![s].lookupCalls = @ + 1,
                                ![s].resp = v,
                                ![s].pc = IF v = NoResp THEN "create" ELSE "done"]
    /\ UNCHANGED <<apiKey, domains, zone, parser, started, now, ticks, lookupCache, priceCache, call>>

\* await createDnsZone(domain, records) and res.json({ success: true, ... })
CreateZoneCall(s, reply) ==
    /\ reqs[s].pc = "create"
    /\ LET res == createDnsZone(reqs[s].body.domain, reqs[s].body.records, reply)
       IN  /\ reqs' = [reqs EXCEPT ![s].createCalls = @ + 1,
                                   ![s].sent = reqs[s].body.records,
                                   ![s].resp = Resp(200, "true", "ok"),
                                   ![s].pc = "done"]
           /\ zone' = IF reply = "200" THEN reqs[s].body.records ELSE zone
    /\ UNCHANGED <<apiKey, domains, parser, started, now, ticks, lookupCache, priceCache, call>>

NextZone ==
    \/ \E d \in {Domain, Undef}, records \in SeqsUpTo(InputRecords, MaxInput) :
          CreateZoneReceive("r1", ZoneBody(d, records))
    \/ \E s \in Slots, reply \in LookupReplies : CreateZoneLookup(s, reply)
    \/ \E s \in Slots, reply \in DnsReplies : CreateZoneCall(s, reply)

SpecZone == InitZone /\ [][NextZone]_vars

\* an MX record without priority, or an SRV record without priority, weight
\* or port
LacksNumbers(r) ==
    \/ r.type = "MX" /\ r.priority = 0
    \/ r.type = "SRV" /\ (r.priority = 0 \/ r.weight = 0 \/ r.port = 0)

\* C23: a create-zone request with an MX record lacking its priority, or an
\* SRV record lacking priority, weight or port, is answered 400 and never
\* reaches create_dns_zone.
C23_MxSrvNumbersRequired ==
    \A s \in Slots :
        (/\ reqs[s].route = "dns/create-zone"
         /\ \E i \in 1..Len(reqs[s].body.records) : LacksNumbers(reqs[s].body.records[i]))
        => /\ reqs[s].createCalls = 0
           /\ reqs[s].pc = "done" => reqs[s].resp.status = 400
(***************************************************************************)
(* The bulk endpoints: POST /bulk-lookup (domain-routes.js:160), POST      *)
(* /bulk-price (domain-routes.js:657) and POST /bulk (part_009:111).  The  *)
(* map over the domains starts every call before the first one ends; the   *)
(* request keeps the counts its answer is made of.                         *)
(***************************************************************************)
MaxBulk == 21

\* domains.slice(0, 20)
bulkSlice == 20

\* Joi: domains: array().min(1).max(100)
bulkLookupMax == 100

BulkRoutes == {"domain/bulk-lookup", "domain/bulk-price", "pricing/bulk"}

\* the numbers of domains a body is sent with; 0 is the empty or absent array
BulkSizes == {0, 1, 2, MaxBulk, bulkLookupMax + 1}

BulkLookupReplies == {"neterr", "210", "211"}
BulkPriceReplies == {"neterr", "200", "465"}

BulkRequest(route, n, pc, resp) ==
    [route |-> route, n |-> n, pc |-> pc, resp |-> resp, calls |-> 0, pending |-> 0,
     results |-> 0, successful |-> 0, available |-> 0,
     lastReply |-> "none", lastAvailable |-> "none"]

\* bulkLookup validation, or the test of the two price handlers
bulk_validate(route, n) ==
    IF route = "domain/bulk-lookup"
    THEN (IF n < 1 \/ n > bulkLookupMax THEN Resp(400, "absent", "validation") ELSE NoResp)
    ELSE (IF n = 0 THEN Resp(400, "false", "domains_required") ELSE NoResp)

\* the number of domains the handler maps over
bulk_toCheck(route, n) ==
    IF route = "domain/bulk-lookup" THEN n
    ELSE IF n > bulkSlice THEN bulkSlice ELSE n

\* result.data.responseCode: parseXmlResponse puts responseCode on the result;
\* result.data is keyed by the item keys of the vendor's attributes section
\* (status, price, ...), none of which is responseCode
dataResponseCode(res) == Undef

\* domain-routes.js:171: result.success && result.data.responseCode === '210'
bulkLookup_available(res) ==
    IF res.success /\ dataResponseCode(res) = "210" THEN "true" ELSE "false"

InitBulk ==
    /\ zone = << >>
    /\ parser = "lib"
    /\ reqs = [s \in Slots |-> BulkRequest("none", 0, "idle", NoResp)]
    /\ started = 0
    /\ now = 0
    /\ ticks = 0
    /\ lookupCache = << >>
    /\ priceCache = << >>
    /\ call = NoCall
    /\ domains = {}
    /\ apiKey = TheKey

\* the request arrives; domains.map starts one call per domain
BulkReceive(s, route, n) ==
    /\ Free(s)
    /\ started < MaxRequests
    /\ started' = started + 1
    /\ LET v == bulk_validate(route, n)
           k == bulk_toCheck(route, n)
       IN  reqs' = [reqs EXCEPT ![s] =
                IF v = NoResp
                THEN [BulkRequest(route, n, "await", NoResp) EXCEPT !.calls = k, !.pending = k]
                ELSE BulkRequest(route, n, "done", v)]
    /\ UNCHANGED <<apiKey, domains, zone, parser, now, ticks, lookupCache, priceCache, call>>

\* one of the pending calls ends and its callback returns the result object;
\* with the last one Promise.all resolves and the handler answers
BulkCallEnds(s, reply) ==
    /\ reqs[s].pc = "await"
    /\ reqs[s].pending > 0
    /\ LET r   == reqs[s]
           isLookup == r.route = "domain/bulk-lookup"
           res == IF isLookup THEN lookupDomain(Domain, reply) ELSE getPrice(Domain, reply)
           av  == IF isLookup /\ ~ res.thrown THEN bulkLookup_available(res) ELSE "false"
       IN  /\ reply \in (IF isLookup THEN BulkLookupReplies ELSE BulkPriceReplies)
           /\ reqs' = [reqs EXCEPT ![s] =
                  [r EXCEPT !.pending = @ - 1,
                            !.results = @ + 1,
                            !.successful = @ + (IF ~ res.thrown /\ res.success THEN 1 ELSE 0),
                            !.available = @ + (IF av = "true" THEN 1 ELSE 0),
                            !.lastReply = reply,
                            !.lastAvailable = av,
                            !.resp = IF r.pending = 1 THEN Resp(200, "true", "ok") ELSE NoResp,
                            !.pc = IF r.pending = 1 THEN "done" ELSE "await"]]
    /\ UNCHANGED <<apiKey, domains, zone, parser, started, now, ticks, lookupCache, priceCache, call>>

NextBulk ==
    \/ \E route \in BulkRoutes, n \in BulkSizes : BulkReceive("r1", route, n)
    \/ \E s \in Slots, reply \in BulkLookupReplies \cup BulkPriceReplies :
          BulkCallEnds(s, reply)

SpecBulk == InitBulk /\ [][NextBulk]_vars

\* C24: a bulk request over n domains that passes validation issues n
\* outbound calls, and its answer carries n results whatever the calls'
\* outcomes.
C24_OneCallAndResultPerDomain ==
    \A s \in Slots :
        (reqs[s].route \in BulkRoutes /\ bulk_validate(reqs[s].route, reqs[s].n) = NoResp)
        => /\ reqs[s].calls = reqs[s].n
           /\ reqs[s].pc = "done" => (reqs[s].resp.status = 200 /\ reqs[s].results = reqs[s].n)

\* C29: the available flag a bulk-lookup result carries for a vendor
\* response is the flag POST /lookup reports for the same response.
C29_BulkLookupAgreesWithLookup ==
    \A s \in Slots :
        (reqs[s].route = "domain/bulk-lookup" /\ reqs[s].lastReply # "none")
        => reqs[s].lastAvailable = lookup_available(lookupDomain(Domain, reqs[s].lastReply))
(***************************************************************************)
(* generateSignature (opensrs-client.js:29).  A string is the list of its  *)
(* character codes; + is concatenation.                                    *)
(***************************************************************************)
MaxSign == 3

SignKeys == { TheKey, << 107, 50 >> }

\* the XML bodies that are signed
SignBodies == { << >>, << 60 >>, << 60, 97 >>, << 60, 98 >> }

HexDigits == 0..15

\* a number that depends on every character of s and on its position
RECURSIVE Mix(_, _)
Mix(s, j) ==
    IF j > Len(s) THEN Len(s) ELSE (s[j] * (j + 1) + 31 * Mix(s, j + 1)) % 65521

\* crypto.createHash('md5').update(s).digest('hex'): a digest of 32 hex
\* digits that depends on s alone (a stand-in for the MD5 compression)
md5(s) ==
    LET h == Mix(s, 1)
    IN  [i \in 1..32 |-> ((h \div i) + h * i + i * i) % 16]

generateSignature_once(xml, key) == md5(xml \o key)

generateSignature(xml, key) ==
    LET firstHash == md5(xml \o key)
        signature == md5(firstHash \o key)
    IN  signature

\* the latest invocation: its number, its argument and its return value, and
\* the argument of the one before
SignCall(n, xml, result, prevXml) ==
    [method |-> "generateSignature", n |-> n, xml |-> xml, result |-> result,
     prevXml |-> prevXml]

InitSign ==
    /\ zone = << >>
    /\ parser = "lib"
    /\ reqs = [s \in Slots |-> Idle]
    /\ started = 0
    /\ now = 0
    /\ ticks = 0
    /\ lookupCache = << >>
    /\ priceCache = << >>
    /\ call = SignCall(0, << >>, << >>, << >>)
    /\ domains = {}
    /\ apiKey \in SignKeys

\* one invocation of generateSignature(xml)
Sign(xml) ==
    /\ call.n < MaxSign
    /\ call' = SignCall(call.n + 1, xml, generateSignature(xml, apiKey), call.xml)
    /\ UNCHANGED <<apiKey, domains, zone, parser, reqs, started, now, ticks, lookupCache,
                   priceCache>>

NextSign ==
    \/ \E xml \in SignBodies : Sign(xml)
    \/ \E dt \in TickSteps : Tick(dt)
    \/ \E data \in LookupData : CacheLookup(Domain, data)

SpecSign == InitSign /\ [][NextSign]_vars

RaceRoutes == {"health/add-record", "dns/add-record"}

\* the record each of the two requests adds
RaceRecord(s) ==
    IF s = "r1" THEN Rec("A", "www", "a3", 0, 0) ELSE Rec("A", "mail", "a1", 0, 0)

RaceReceive(s, route) ==
    /\ reqs[s].pc = "idle"
    /\ started' = started + 1
    /\ LET b == Body(Domain, RaceRecord(s), NoRecord, Undef)
           v == Validate(route, b)
       IN  reqs' = [reqs EXCEPT ![s] =
                IF v = NoResp THEN Request(route, b, "get", NoResp)
                ELSE Request(route, b, "done", v)]
    /\ UNCHANGED <<apiKey, domains, zone, parser, now, ticks, lookupCache, priceCache, call>>

NextRace ==
    \/ \E s \in Slots, route \in RaceRoutes : RaceReceive(s, route)
    \/ \E s \in Slots, reply \in DnsReplies : GetZone(s, reply)
    \/ \E s \in Slots, reply \in DnsReplies : SetZone(s, reply)

SpecRace == Init /\ [][NextRace]_vars

InZone(rec) == \E i \in 1..Len(zone) : zone[i] = rec

\* C26: when two concurrent add-record requests with different new records
\* have both answered success, the vendor's zone holds the record each of
\* them added and every record either of them read.
C26_NoLostUpdate ==
    (\A s \in Slots : /\ reqs[s].route \in RaceRoutes
                      /\ reqs[s].pc = "done"
                      /\ reqs[s].resp.status = 200
                      /\ reqs[s].code = "200")
    => \A s \in Slots :
          /\ InZone(reqs[s].final[Len(reqs[s].final)])
          /\ \A i \in 1..Len(reqs[s].zoneAtRead) : InZone(reqs[s].zoneAtRead[i])
(***************************************************************************)
(* Reads of the lookup cache against the history of its writes             *)
(* (cache-manager.js:12-30, 58-72).  `call` keeps the latest write (its    *)
(* data and time), whether clearExpired ran since, and the latest read.    *)
(***************************************************************************)
CacheLog(method, wrote, data, at, swept, read, readAt) ==
    [method |-> method, wrote |-> wrote, data |-> data, at |-> at, swept |-> swept,
     read |-> read, readAt |-> readAt]

InitRead ==
    /\ zone = << >>
    /\ parser = "lib"
    /\ reqs = [s \in Slots |-> Idle]
    /\ started = 0
    /\ now = 0
    /\ ticks = 0
    /\ lookupCache = << >>
    /\ priceCache = << >>
    /\ call = CacheLog("none", FALSE, null, 0, FALSE, "none", 0)
    /\ domains = {}
    /\ apiKey = TheKey

\* cacheLookup(domain, result)
WriteLookup(data) ==
    /\ lookupCache' = cacheLookup(lookupCache, Domain, data)
    /\ call' = CacheLog("cacheLookup", TRUE, data, now, FALSE, call.read, call.readAt)
    /\ UNCHANGED <<apiKey, domains, zone, parser, reqs, started, now, ticks, priceCache>>

\* getCachedLookup(domain)
ReadLookup ==
    /\ call' = [call EXCEPT !.method = "getCachedLookup",
                            !.read = getCachedLookup(Domain),
                            !.readAt = now]
    /\ UNCHANGED <<apiKey, domains, zone, parser, reqs, started, now, ticks, lookupCache,
                   priceCache>>

\* clearExpired()
Sweep ==
    /\ lookupCache' = clearExpired(lookupCache)
    /\ priceCache' = clearExpired(priceCache)
    /\ call' = [call EXCEPT !.method = "clearExpired", !.swept = TRUE]
    /\ UNCHANGED <<apiKey, domains, zone, parser, reqs, started, now, ticks>>

NextRead ==
    \/ \E data \in LookupData : WriteLookup(data)
    \/ ReadLookup
    \/ Sweep
    \/ \E dt \in TickSteps : Tick(dt)

SpecRead == InitRead /\ [][NextRead]_vars

\* C27: getCachedLookup returns the data of the latest cacheLookup for the
\* domain when that write is less than five minutes old at the read, and
\* null otherwise, whether or not clearExpired ran in between.
C27_ReadFollowsLatestWrite ==
    call.method = "getCachedLookup" =>
        call.read = (IF call.wrote /\ call.readAt - call.at < cacheTimeout
                     THEN call.data ELSE null)

\* a read that finds the entry after time passed and clearExpired ran
C27_FreshReadAfterSweep ==
    /\ call.method = "getCachedLookup"
    /\ call.swept
    /\ call.readAt > call.at
    /\ call.read # null
(***************************************************************************)
(* POST /manage-record while time passes (health-routes.js:479).  The      *)
(* handler goes on when an awaited call settles; the POST carries no       *)
(* timeout (axiosTimeout), so only the passing of time is fair.            *)
(***************************************************************************)
NextManage ==
    \/ \E b \in BodiesOf("health/manage-record") : Receive("r1", "health/manage-record", b)
    \/ \E s \in Slots, reply \in DnsReplies : GetZone(s, reply)
    \/ \E s \in Slots, reply \in DnsReplies : SetZone(s, reply)
    \/ \E dt \in TickSteps : Tick(dt)

SpecManage ==
    Init /\ [][NextManage]_vars /\ WF_vars(\E dt \in TickSteps : Tick(dt))

Answered(r) == r.pc = "done" /\ r.resp.status # 0

\* C28: every manage-record request that has been received is answered: it
\* reaches the end of the handler with an HTTP response.
C28_ManageRecordAnswered ==
    \A s \in Slots :
        (reqs[s].route = "health/manage-record") ~> Answered(reqs[s])
====
